---- MODULE Spec2Model ----
(***************************************************************************)
(* State-machine model of mvd-fileui (tools/fileui/src/pick.cpp): the      *)
(* argument interpreter, the reveal pipeline, the shell launcher and the   *)
(* pick-folder / save-file dialog flow with its path canonicalisation and  *)
(* UTF-8 output; and of mvd-diskspace (tools/diskspace/src/diskspace.cpp). *)
(* OS calls are modelled by their possible outcomes.                       *)
(***************************************************************************)
EXTENDS Integers, Sequences, FiniteSets, TLC

VARIABLES
    pc,          \* position of the single thread in main / reveal_file / ...
    argv,        \* argv of main where a specification draws it in its initial state
    argsOk,      \* return value of parse_args
    mode,        \* DialogMode selected by parse_args
    title,       \* const wchar_t* title
    initial,     \* const wchar_t* initial (also --path)
    filename,    \* const wchar_t* filename
    acq,         \* per resource: number of acquisitions made so far
    rel,         \* per resource: number of release calls made so far
    calls,       \* OS / CRT calls made so far, in program order
    pidlFile,    \* PIDLIST_ABSOLUTE pidlFile   (reveal_file)
    pidlFolder,  \* PIDLIST_ABSOLUTE pidlFolder (reveal_file)
    pidlChild,   \* PCUITEMID_CHILD pidlChild   (reveal_file)
    showResult,  \* HRESULT showResult of reveal_file ("none" before the call)
    shExecInfo,  \* SHELLEXECUTEINFOW handed to ShellExecuteExW (open_folder / open_file)
    execOk,      \* BOOL returned by ShellExecuteExW, as "TRUE" / "FALSE" ("none" before the call)
    wz,          \* PWSTR wz: display name of the dialog's result item
    lpLen,       \* DWORD len returned by GetLongPathNameW (-1: not called)
    wtext,       \* argument of the write_utf8_stdout call made by main
    rc,          \* int rc of main (result of reveal/open in the shell modes)
    stdout,      \* bytes written to standard output
    stderr,      \* diagnostic lines written to standard error
    exitCode,    \* process exit code (-1 while running)
    build,       \* preprocessor branch compiled into diskspace ("_WIN32" or "posix")
    freeBytes    \* uint64_t freeBytes of diskspace's main

vars == <<pc, argv, argsOk, mode, title, initial, filename, acq, rel, calls, pidlFile,
          pidlFolder, pidlChild, showResult, shExecInfo, execOk, wz, lpLen, wtext, rc,
          stdout, stderr, exitCode, build, freeBytes>>

----------------------------------------------------------------------------
(* Bounds of the model *)

\* number of command-line items after argv[0]; an item is an option with
\* its value, or a lone argument
MaxArgItems == 2
\* number of prefix pieces in front of the body of a raw display name
MaxPrefixes == 2
\* number of item ids in an absolute PIDL returned by SHParseDisplayName
MaxSegs == 2
\* number of arguments after argv[0] handed to mvd-diskspace
MaxDiskArgs == 2
\* largest f_bavail reported to mvd-diskspace
MaxBlocks == 3

----------------------------------------------------------------------------
(* Strings.  A narrow/argument string is a TLA+ string; NULL is Null.      *)
(* A wide string handled character by character is a sequence of wchar_t,  *)
(* each written as a one-symbol string.                                     *)

Null == "<NULL>"

\* !p || !*p
IsNullOrEmpty(p) == p = Null \/ p = ""

BS == "\\"
ExtPrefix    == <<BS, BS, "?", BS>>                      \* L"\\\\?\\"
ExtUncPrefix == <<BS, BS, "?", BS, "U", "N", "C", BS>>   \* L"\\\\?\\UNC\\"
TwoBackslash == <<BS, BS>>                               \* L"\\\\"

\* wcsncmp(s, p, n) == 0 where p has exactly n characters before its NUL
StartsWith(s, p) == Len(s) >= Len(p) /\ SubSeq(s, 1, Len(p)) = p

\* pointer arithmetic s + n on a string of at least n characters
Skip(s, n) == SubSeq(s, n + 1, Len(s))

RECURSIVE Concat(_)
Concat(ss) == IF ss = <<>> THEN <<>> ELSE Head(ss) \o Concat(Tail(ss))

\* UTF-8 encoding of one wide character (CP_UTF8)
Utf8Char(c) ==
    CASE c = BS       -> <<92>>
      [] c = "?"      -> <<63>>
      [] c = ":"      -> <<58>>
      [] c = "~"      -> <<126>>
      [] c = "1"      -> <<49>>
      [] c = "A"      -> <<65>>
      [] c = "C"      -> <<67>>
      [] c = "N"      -> <<78>>
      [] c = "U"      -> <<85>>
      [] c = "b"      -> <<98>>
      [] c = "c"      -> <<99>>
      [] c = "h"      -> <<104>>
      [] c = "s"      -> <<115>>
      [] c = "U+00E9" -> <<195, 169>>
      [] c = "U+20AC" -> <<226, 130, 172>>

RECURSIVE Utf8(_)
Utf8(w) == IF w = <<>> THEN <<>> ELSE Utf8Char(Head(w)) \o Utf8(Tail(w))

\* WideCharToMultiByte(CP_UTF8, 0, wstr, -1, ...): the converted bytes with
\* the terminating NUL; its length is the value the sizing call returns
WideCharToMultiByte(w) == Utf8(w) \o <<0>>

----------------------------------------------------------------------------
(* write_utf8_stdout.  wstr is [null, str]; mallocOk and out are the        *)
(* outcomes of malloc and fwrite (out = number of bytes fwrite reports).    *)
(* The result is the return value and the bytes that reached stdout.        *)

NullW == [null |-> TRUE, str |-> <<>>]
WStr(s) == [null |-> FALSE, str |-> s]

\* the number of bytes fwrite is asked to write: needed - 1
WriteLen(wstr) == Len(WideCharToMultiByte(wstr.str)) - 1

\* write_utf8_stdout writing the terminator too (needed bytes instead of needed - 1)
write_utf8_stdout_WithNul(wstr, mallocOk, out) ==
    IF wstr.null THEN [ret |-> 1, bytes |-> <<>>]
    ELSE LET buf    == WideCharToMultiByte(wstr.str)
             needed == Len(buf)
             len    == needed - 1
         IN  IF needed <= 1 THEN [ret |-> 1, bytes |-> <<>>]
             ELSE IF ~mallocOk THEN [ret |-> 1, bytes |-> <<>>]
             ELSE [ret   |-> IF out = len THEN 0 ELSE 1,
                   bytes |-> SubSeq(buf, 1, IF out = len THEN needed ELSE out)]

\* write_utf8_stdout not comparing the count fwrite reports with len
write_utf8_stdout_IgnoreShort(wstr, mallocOk, out) ==
    IF wstr.null THEN [ret |-> 1, bytes |-> <<>>]
    ELSE LET buf    == WideCharToMultiByte(wstr.str)
             needed == Len(buf)
         IN  IF needed <= 1 THEN [ret |-> 1, bytes |-> <<>>]
             ELSE IF ~mallocOk THEN [ret |-> 1, bytes |-> <<>>]
             ELSE [ret |-> 0, bytes |-> SubSeq(buf, 1, out)]

write_utf8_stdout(wstr, mallocOk, out) ==
    IF wstr.null THEN [ret |-> 1, bytes |-> <<>>]
    ELSE LET buf    == WideCharToMultiByte(wstr.str)
             needed == Len(buf)
             len    == needed - 1
         IN  IF needed <= 1 THEN [ret |-> 1, bytes |-> <<>>]
             ELSE IF ~mallocOk THEN [ret |-> 1, bytes |-> <<>>]
             ELSE [ret   |-> IF out = len THEN 0 ELSE 1,
                   bytes |-> SubSeq(buf, 1, out)]

\* the outcomes fwrite can report for a request of n bytes
FwriteOutcomes(n) == 0..n

----------------------------------------------------------------------------
(* Path canonicalisation of the dialog result (main, lines 332-361)         *)

\* wchar_t longPath[32768]
LongPathCch == 32768

\* wcsncmp(wz, L"\\\\?\\UNC\\", 8) == 0
IsExtUnc(w) == StartsWith(w, ExtUncPrefix)

\* wcsncmp(wz, L"\\\\?\\", 4) == 0
IsExt(w) == StartsWith(w, ExtPrefix)

\* UncRewrite skipping the extended-length prefix only (wz + 4)
UncRewrite_Skip4(w) == TwoBackslash \o Skip(w, 4)

\* tempBuffer: L"\\\\" followed by uncPath = wz + 8
UncRewrite(w) == TwoBackslash \o Skip(w, 8)

\* OutputPath leaving the extended-length prefix in place
OutputPath_NoStrip(w) == w

\* OutputPath taking wz + 4 without looking at the first four characters
OutputPath_Always4(w) == Skip(w, 4)

\* outputPath on the non-UNC branch: wz + 4 after "\\?\", else wz
OutputPath(w) == IF IsExt(w) THEN Skip(w, 4) ELSE w

\* The file system the OS consults: the 8.3 alias A~1 names the entry Abc1.
ShortSeg == <<"A", "~", "1">>
LongSeg  == <<"A", "b", "c", "1">>

RECURSIVE Expand(_)
Expand(p) ==
    IF p = <<>> THEN <<>>
    ELSE IF StartsWith(p, ShortSeg) THEN LongSeg \o Expand(Skip(p, Len(ShortSeg)))
    ELSE <<Head(p)>> \o Expand(Tail(p))

\* What GetLongPathNameW(path, longPath, 32768) can do: fail (0, buffer not
\* written), succeed (length of the long form, buffer holds it), or report a
\* required size beyond the buffer (buffer not written).
LongPathKinds(path) ==
    IF path = <<>> THEN {"fail"} ELSE {"fail", "ok", "too-long"}

GetLongPathNameW(path, kind) ==
    CASE kind = "ok"       -> [len |-> Len(Expand(path)), buf |-> WStr(Expand(path))]
      [] kind = "fail"     -> [len |-> 0, buf |-> NullW]
      [] kind = "too-long" -> [len |-> LongPathCch + 1, buf |-> NullW]

\* LongPathChoice without the check of len against the buffer size
LongPathChoice_NoBound(outputPath, lp) ==
    IF lp.len > 0 THEN lp.buf ELSE WStr(outputPath)

\* if (len > 0 && len < 32768) longPath else outputPath
LongPathChoice(outputPath, lp) ==
    IF lp.len > 0 /\ lp.len < LongPathCch THEN lp.buf ELSE WStr(outputPath)

\* The text main hands to write_utf8_stdout for a non-empty display name w,
\* when the OS answers the long-name query in the way `kind` (lines 332-361).
Normalize(w, kind) ==
    IF IsExtUnc(w) THEN UncRewrite(w)
    ELSE LET o    == OutputPath(w)
             k    == IF kind \in LongPathKinds(o) THEN kind ELSE "fail"
         IN  LongPathChoice(o, GetLongPathNameW(o, k)).str

\* Display names GetDisplayName(SIGDN_FILESYSPATH) may hand back
UncMarker == <<"U", "N", "C", BS>>
PrefixPieces == {ExtPrefix, UncMarker, TwoBackslash}
DriveBodies == { <<"C", ":", BS, "A", "~", "1">>,
                 <<"C", ":", BS, "U+00E9", "U+20AC">> }
UncBodies   == { <<"s", BS, "h", BS, "A", "~", "1">> }
Bodies      == {<<>>} \cup DriveBodies \cup UncBodies

\* The forms of a file-system display name: drive path, extended-length drive
\* path, UNC path, extended-length UNC path; and the empty string, which
\* main tests for (*wz).
DisplayNames ==
    {<<>>} \cup {p \o b : p \in {<<>>, ExtPrefix}, b \in DriveBodies}
           \cup {p \o b : p \in {TwoBackslash, ExtUncPrefix}, b \in UncBodies}

\* Arbitrary strings over the same pieces, for the canonicalisation taken as
\* a function of any string: up to MaxPrefixes pieces in front of a body.
PrefixSeqs == UNION {[1..n -> PrefixPieces] : n \in 0..MaxPrefixes}
RawPaths == {Concat(ps) \o b : ps \in PrefixSeqs, b \in Bodies}

----------------------------------------------------------------------------
(* parse_args (lines 66-109).  argv[1] of the model is argv[0] of the code. *)

ModeNames == {"pick-folder", "save-file", "reveal", "open-folder", "open-file"}

ModeOf(name) ==
    CASE name = "pick-folder" -> "MODE_PICK_FOLDER"
      [] name = "save-file"   -> "MODE_SAVE_FILE"
      [] name = "reveal"      -> "MODE_REVEAL"
      [] name = "open-folder" -> "MODE_OPEN_FOLDER"
      [] name = "open-file"   -> "MODE_OPEN_FILE"

\* Command lines: lone arguments (texts, or an option left without a value)
\* and options with a value; "C:\\x" after --mode is an invalid mode name.
TextArgs == {"", "C:\\x"}
ArgItems ==
    {<<t>> : t \in TextArgs \cup {"--mode"}}
      \cup {<<"--mode", m>> : m \in ModeNames \cup {"C:\\x"}}
      \cup {<<f, v>> : f \in {"--title", "--initial", "--path", "--name"}, v \in TextArgs}

Argvs == {<<"mvd-fileui.exe">> \o Concat(a) :
            a \in UNION {[1..n -> ArgItems] : n \in 0..MaxArgItems}}

\* the two ways of starting a dialog that the canonicalisation is checked under
DialogArgvs == { <<"mvd-fileui.exe">>,
                 <<"mvd-fileui.exe", "--mode", "save-file", "--name", "C:\\x">> }

ParseDefaults ==
    [ok |-> TRUE, mode |-> "MODE_PICK_FOLDER", title |-> "Choose Folder",
     initial |-> Null, filename |-> Null]

\* parse_loop with "else if (i == 2)" written as a plain "else"
RECURSIVE parse_loop_AnyLater(_, _, _)
parse_loop_AnyLater(av, i, st) ==
    LET argc == Len(av)
        A(k) == av[k + 1]
    IN  IF ~(i < argc) THEN st
        ELSE IF A(i) = "--mode" /\ i + 1 < argc THEN
                 IF A(i + 1) \in ModeNames
                 THEN parse_loop_AnyLater(av, i + 2, [st EXCEPT !.mode = ModeOf(A(i + 1))])
                 ELSE [st EXCEPT !.ok = FALSE]
        ELSE IF A(i) = "--title" /\ i + 1 < argc THEN
                 parse_loop_AnyLater(av, i + 2, [st EXCEPT !.title = A(i + 1)])
        ELSE IF A(i) = "--initial" /\ i + 1 < argc THEN
                 parse_loop_AnyLater(av, i + 2, [st EXCEPT !.initial = A(i + 1)])
        ELSE IF A(i) = "--path" /\ i + 1 < argc THEN
                 parse_loop_AnyLater(av, i + 2, [st EXCEPT !.initial = A(i + 1)])
        ELSE IF A(i) = "--name" /\ i + 1 < argc THEN
                 parse_loop_AnyLater(av, i + 2, [st EXCEPT !.filename = A(i + 1)])
        ELSE IF i = 1 THEN parse_loop_AnyLater(av, i + 1, [st EXCEPT !.title = A(i)])
        ELSE parse_loop_AnyLater(av, i + 1, [st EXCEPT !.initial = A(i)])

RECURSIVE parse_loop(_, _, _)
parse_loop(av, i, st) ==
    LET argc == Len(av)
        A(k) == av[k + 1]
    IN  IF ~(i < argc) THEN st
        ELSE IF A(i) = "--mode" /\ i + 1 < argc THEN
                 IF A(i + 1) \in ModeNames
                 THEN parse_loop(av, i + 2, [st EXCEPT !.mode = ModeOf(A(i + 1))])
                 ELSE [st EXCEPT !.ok = FALSE]
        ELSE IF A(i) = "--title" /\ i + 1 < argc THEN
                 parse_loop(av, i + 2, [st EXCEPT !.title = A(i + 1)])
        ELSE IF A(i) = "--initial" /\ i + 1 < argc THEN
                 parse_loop(av, i + 2, [st EXCEPT !.initial = A(i + 1)])
        ELSE IF A(i) = "--path" /\ i + 1 < argc THEN
                 parse_loop(av, i + 2, [st EXCEPT !.initial = A(i + 1)])
        ELSE IF A(i) = "--name" /\ i + 1 < argc THEN
                 parse_loop(av, i + 2, [st EXCEPT !.filename = A(i + 1)])
        ELSE IF i = 1 THEN parse_loop(av, i + 1, [st EXCEPT !.title = A(i)])
        ELSE IF i = 2 THEN parse_loop(av, i + 1, [st EXCEPT !.initial = A(i)])
        ELSE parse_loop(av, i + 1, st)

parse_args(av) == parse_loop(av, 1, ParseDefaults)

----------------------------------------------------------------------------
(* Resources and bookkeeping *)

Resources == {"argv", "session", "pidlFile", "pidlFolder", "dialog", "pfsd",
              "initialItem", "result", "displayName"}

Acquire(S) == acq' = [r \in Resources |-> acq[r] + IF r \in S THEN 1 ELSE 0]
Release(S) == rel' = [r \in Resources |-> rel[r] + IF r \in S THEN 1 ELSE 0]
Log(cs)    == calls' = calls \o cs
Diag(line) == stderr' = Append(stderr, line)

NoPidl == [null |-> TRUE, ids |-> <<>>]
Pidl(n) == [null |-> FALSE, ids |-> [i \in 1..n |-> i]]

NoShExecInfo == [set |-> FALSE, fMask |-> 0, lpVerb |-> Null, lpFile |-> Null, nShow |-> "0"]

InitState ==
    /\ argsOk = FALSE
    /\ mode = "MODE_PICK_FOLDER"
    /\ title = Null
    /\ initial = Null
    /\ filename = Null
    /\ acq = [r \in Resources |-> 0]
    /\ rel = [r \in Resources |-> 0]
    /\ calls = <<>>
    /\ pidlFile = NoPidl
    /\ pidlFolder = NoPidl
    /\ pidlChild = NoPidl
    /\ showResult = "none"
    /\ shExecInfo = NoShExecInfo
    /\ execOk = "none"
    /\ wz = NullW
    /\ lpLen = -1
    /\ wtext = [called |-> FALSE, text |-> NullW]
    /\ rc = 1
    /\ stdout = <<>>
    /\ stderr = <<>>
    /\ exitCode = -1
    /\ freeBytes = 0

Init ==
    /\ pc = "main"
    /\ argv = <<>>
    /\ build = "_WIN32"
    /\ InitState

revealVars == <<pidlFile, pidlFolder, pidlChild>>
launchVars == <<shExecInfo, execOk>>
dialogVars == <<wz, lpLen, wtext>>
argVars    == <<argsOk, mode, title, initial, filename>>
toolVars   == <<argv, build, freeBytes>>

----------------------------------------------------------------------------
(* main: argument parsing and dispatch (lines 223-255) *)

\* EntryOf without the MODE_OPEN_FILE dispatch of lines 251-255
EntryOf_NoOpenFile(m) ==
    CASE m = "MODE_REVEAL"      -> "reveal_file"
      [] m = "MODE_OPEN_FOLDER" -> "open_folder"
      [] OTHER                  -> "dlg_coinit"

EntryOf(m) ==
    CASE m = "MODE_REVEAL"      -> "reveal_file"
      [] m = "MODE_OPEN_FOLDER" -> "open_folder"
      [] m = "MODE_OPEN_FILE"   -> "open_file"
      [] OTHER                  -> "dlg_coinit"

ParseArgsFrom(argvs) ==
    /\ pc = "main"
    /\ \E av \in argvs :
         LET p == parse_args(av)
         IN  /\ argsOk' = p.ok
             /\ mode' = p.mode
             /\ title' = p.title
             /\ initial' = p.initial
             /\ filename' = p.filename
             /\ IF ~p.ok
                THEN /\ Acquire({"argv"})
                     /\ Release({"argv"})
                     /\ Log(<<"CommandLineToArgvW", "LocalFree(argv)">>)
                     /\ exitCode' = 1
                     /\ pc' = "done"
                ELSE /\ Acquire({"argv"})
                     /\ Log(<<"CommandLineToArgvW">>)
                     /\ pc' = EntryOf(p.mode)
                     /\ UNCHANGED <<rel, exitCode>>
    /\ UNCHANGED <<revealVars, showResult, launchVars, dialogVars, toolVars, rc,
                   stdout, stderr>>

MainParseArgs == ParseArgsFrom(Argvs)

MainParseArgsDialog == ParseArgsFrom(DialogArgvs)

\* int result = reveal_file / open_folder / open_file (initial);
\* LocalFree(argv); return result;
MainReturn ==
    /\ pc = "main_ret"
    /\ Release({"argv"})
    /\ Log(<<"LocalFree(argv)">>)
    /\ exitCode' = rc
    /\ pc' = "done"
    /\ UNCHANGED <<argVars, launchVars, showResult, toolVars, acq, revealVars,
                   dialogVars, rc, stdout, stderr>>

----------------------------------------------------------------------------
(* open_folder (lines 177-199) and open_file (lines 202-221) *)

\* ShellExecuteInfo without the assignment of lpVerb (the default verb)
ShellExecuteInfo_NoVerb(path) ==
    [set |-> TRUE, fMask |-> 0, lpVerb |-> Null, lpFile |-> path, nShow |-> "SW_SHOW"]

\* SHELLEXECUTEINFOW shExecInfo = {}; fMask = 0; lpVerb = L"open";
\* lpFile = path; nShow = SW_SHOW
ShellExecuteInfo(path) ==
    [set |-> TRUE, fMask |-> 0, lpVerb |-> "open", lpFile |-> path, nShow |-> "SW_SHOW"]

\* open_folder without the test of lines 178-181
open_folder_NoCheck ==
    /\ pc = "open_folder"
    /\ \E ok \in BOOLEAN :
         /\ shExecInfo' = ShellExecuteInfo(initial)
         /\ execOk' = IF ok THEN "TRUE" ELSE "FALSE"
         /\ Log(<<"ShellExecuteExW">>)
         /\ IF ~ok
            THEN Diag("open-folder: execute-failed") /\ rc' = 1
            ELSE rc' = 0 /\ UNCHANGED stderr
    /\ pc' = "main_ret"
    /\ UNCHANGED <<argVars, showResult, toolVars, acq, rel, revealVars, dialogVars, stdout,
                   exitCode>>

open_folder ==
    /\ pc = "open_folder"
    /\ IF IsNullOrEmpty(initial)
       THEN /\ Diag("open-folder: invalid-path")
            /\ rc' = 1
            /\ UNCHANGED <<calls, launchVars>>
       ELSE \E ok \in BOOLEAN :
              /\ shExecInfo' = ShellExecuteInfo(initial)
              /\ execOk' = IF ok THEN "TRUE" ELSE "FALSE"
              /\ Log(<<"ShellExecuteExW">>)
              /\ IF ~ok
                 THEN Diag("open-folder: execute-failed") /\ rc' = 1
                 ELSE rc' = 0 /\ UNCHANGED stderr
    /\ pc' = "main_ret"
    /\ UNCHANGED <<argVars, showResult, toolVars, acq, rel, revealVars, dialogVars,
                   stdout, exitCode>>

open_file ==
    /\ pc = "open_file"
    /\ IF IsNullOrEmpty(initial)
       THEN /\ Diag("open-file: invalid-path")
            /\ rc' = 1
            /\ UNCHANGED <<calls, launchVars>>
       ELSE \E ok \in BOOLEAN :
              /\ shExecInfo' = ShellExecuteInfo(initial)
              /\ execOk' = IF ok THEN "TRUE" ELSE "FALSE"
              /\ Log(<<"ShellExecuteExW">>)
              /\ IF ~ok
                 THEN Diag("open-file: execute-failed") /\ rc' = 1
                 ELSE rc' = 0 /\ UNCHANGED stderr
    /\ pc' = "main_ret"
    /\ UNCHANGED <<argVars, showResult, toolVars, acq, rel, revealVars, dialogVars,
                   stdout, exitCode>>

----------------------------------------------------------------------------
(* reveal_file (lines 113-173) *)

\* ILRemoveLastID reporting success on an empty list
ILRemoveLastID_AcceptsEmpty(p) ==
    IF p.null
    THEN [ok |-> FALSE, pidl |-> p]
    ELSE [ok |-> TRUE,
          pidl |-> [p EXCEPT !.ids = IF Len(p.ids) = 0 THEN <<>>
                                     ELSE SubSeq(p.ids, 1, Len(p.ids) - 1)]]

\* ILRemoveLastID: FALSE on an empty list, else the last id is cut off
ILRemoveLastID(p) ==
    IF p.null \/ Len(p.ids) = 0
    THEN [ok |-> FALSE, pidl |-> p]
    ELSE [ok |-> TRUE, pidl |-> [p EXCEPT !.ids = SubSeq(p.ids, 1, Len(p.ids) - 1)]]

\* ILFindLastID: the last id of the list (a view into p), or NULL
ILFindLastID(p, found) ==
    IF p.null \/ ~found THEN NoPidl
    ELSE [null |-> FALSE,
          ids  |-> IF Len(p.ids) = 0 THEN <<>> ELSE <<p.ids[Len(p.ids)]>>]

\* outcomes of SHParseDisplayName: failure HRESULT, success with a NULL
\* list (n = -1), or success with a list of n ids
ParseOutcomes ==
    {[succeeded |-> FALSE, n |-> -1]} \cup {[succeeded |-> TRUE, n |-> k] : k \in -1..MaxSegs}

RevealCheckPath ==
    /\ pc = "reveal_file"
    /\ IF IsNullOrEmpty(initial)
       THEN /\ Diag("reveal: invalid-path")
            /\ rc' = 1
            /\ pc' = "main_ret"
       ELSE /\ pc' = "reveal_coinit"
            /\ UNCHANGED <<stderr, rc>>
    /\ UNCHANGED <<argVars, launchVars, showResult, toolVars, acq, rel, calls,
                   revealVars, dialogVars, stdout, exitCode>>

\* RevealCoInit with CoUninitialize also called after a failed CoInitializeEx
RevealCoInit_UninitOnFail ==
    /\ pc = "reveal_coinit"
    /\ \E ok \in BOOLEAN :
         IF ~ok
         THEN /\ Log(<<"CoInitializeEx", "CoUninitialize">>)
              /\ Release({"session"})
              /\ Diag("reveal: com-init-failed")
              /\ rc' = 1
              /\ pc' = "main_ret"
              /\ UNCHANGED acq
         ELSE /\ Log(<<"CoInitializeEx">>)
              /\ Acquire({"session"})
              /\ pc' = "reveal_parse"
              /\ UNCHANGED <<rel, stderr, rc>>
    /\ UNCHANGED <<argVars, launchVars, showResult, toolVars, revealVars,
                   dialogVars, stdout, exitCode>>

RevealCoInit ==
    /\ pc = "reveal_coinit"
    /\ Log(<<"CoInitializeEx">>)
    /\ \E ok \in BOOLEAN :
         IF ~ok
         THEN /\ Diag("reveal: com-init-failed")
              /\ rc' = 1
              /\ pc' = "main_ret"
              /\ UNCHANGED acq
         ELSE /\ Acquire({"session"})
              /\ pc' = "reveal_parse"
              /\ UNCHANGED <<stderr, rc>>
    /\ UNCHANGED <<argVars, launchVars, showResult, toolVars, rel, revealVars,
                   dialogVars, stdout, exitCode>>

\* RevealParse going on to the clone step although nothing was resolved
RevealParse_NoCheck ==
    /\ pc = "reveal_parse"
    /\ \E o \in ParseOutcomes :
         /\ pidlFile' = IF o.succeeded /\ o.n >= 0 THEN Pidl(o.n) ELSE NoPidl
         /\ Log(<<"SHParseDisplayName">>)
         /\ IF pidlFile'.null THEN UNCHANGED acq ELSE Acquire({"pidlFile"})
         /\ pc' = "reveal_clone"
         /\ UNCHANGED <<rel, stderr, rc>>
    /\ UNCHANGED <<argVars, launchVars, showResult, toolVars, pidlFolder, pidlChild,
                   dialogVars, stdout, exitCode>>

RevealParse ==
    /\ pc = "reveal_parse"
    /\ \E o \in ParseOutcomes :
         IF ~o.succeeded \/ o.n < 0
         THEN /\ pidlFile' = NoPidl
              /\ Log(<<"SHParseDisplayName", "CoUninitialize">>)
              /\ Release({"session"})
              /\ Diag("reveal: file-not-found")
              /\ rc' = 1
              /\ pc' = "main_ret"
              /\ UNCHANGED acq
         ELSE /\ pidlFile' = Pidl(o.n)
              /\ Log(<<"SHParseDisplayName">>)
              /\ Acquire({"pidlFile"})
              /\ pc' = "reveal_clone"
              /\ UNCHANGED <<rel, stderr, rc>>
    /\ UNCHANGED <<argVars, launchVars, showResult, toolVars, pidlFolder, pidlChild,
                   dialogVars, stdout, exitCode>>

\* RevealClone with the clone-failure branch returning without ILFree(pidlFile)
RevealClone_NoFree ==
    /\ pc = "reveal_clone"
    /\ \E ok \in BOOLEAN :
         IF ~ok
         THEN /\ pidlFolder' = NoPidl
              /\ Log(<<"ILClone", "CoUninitialize">>)
              /\ Release({"session"})
              /\ Diag("reveal: clone-failed")
              /\ rc' = 1
              /\ pc' = "main_ret"
              /\ UNCHANGED acq
         ELSE /\ pidlFolder' = pidlFile
              /\ Log(<<"ILClone">>)
              /\ Acquire({"pidlFolder"})
              /\ pc' = "reveal_remove"
              /\ UNCHANGED <<rel, stderr, rc>>
    /\ UNCHANGED <<argVars, launchVars, showResult, toolVars, pidlFile, pidlChild,
                   dialogVars, stdout, exitCode>>

RevealClone ==
    /\ pc = "reveal_clone"
    /\ \E ok \in BOOLEAN :
         IF ~ok
         THEN /\ pidlFolder' = NoPidl
              /\ Log(<<"ILClone", "ILFree(pidlFile)", "CoUninitialize">>)
              /\ Release({"pidlFile", "session"})
              /\ Diag("reveal: clone-failed")
              /\ rc' = 1
              /\ pc' = "main_ret"
              /\ UNCHANGED acq
         ELSE /\ pidlFolder' = pidlFile
              /\ Log(<<"ILClone">>)
              /\ Acquire({"pidlFolder"})
              /\ pc' = "reveal_remove"
              /\ UNCHANGED <<rel, stderr, rc>>
    /\ UNCHANGED <<argVars, launchVars, showResult, toolVars, pidlFile, pidlChild,
                   dialogVars, stdout, exitCode>>

\* RevealRemoveLast with pidlFolder an alias of pidlFile instead of a clone:
\* the truncation cuts the resolved list as well
RevealRemoveLast_Aliased ==
    /\ pc = "reveal_remove"
    /\ LET r == ILRemoveLastID(pidlFolder)
       IN  /\ pidlFolder' = r.pidl
           /\ pidlFile' = r.pidl
           /\ IF ~r.ok
              THEN /\ Log(<<"ILRemoveLastID", "ILFree(pidlFolder)", "ILFree(pidlFile)",
                            "CoUninitialize">>)
                   /\ Release({"pidlFolder", "pidlFile", "session"})
                   /\ Diag("reveal: parse-failed")
                   /\ rc' = 1
                   /\ pc' = "main_ret"
              ELSE /\ Log(<<"ILRemoveLastID">>)
                   /\ pc' = "reveal_find"
                   /\ UNCHANGED <<rel, stderr, rc>>
    /\ UNCHANGED <<argVars, launchVars, showResult, toolVars, acq, pidlChild, dialogVars,
                   stdout, exitCode>>

RevealRemoveLast ==
    /\ pc = "reveal_remove"
    /\ LET r == ILRemoveLastID(pidlFolder)
       IN  /\ pidlFolder' = r.pidl
           /\ IF ~r.ok
              THEN /\ Log(<<"ILRemoveLastID", "ILFree(pidlFolder)", "ILFree(pidlFile)",
                            "CoUninitialize">>)
                   /\ Release({"pidlFolder", "pidlFile", "session"})
                   /\ Diag("reveal: parse-failed")
                   /\ rc' = 1
                   /\ pc' = "main_ret"
              ELSE /\ Log(<<"ILRemoveLastID">>)
                   /\ pc' = "reveal_find"
                   /\ UNCHANGED <<rel, stderr, rc>>
    /\ UNCHANGED <<argVars, launchVars, showResult, toolVars, acq, pidlFile, pidlChild,
                   dialogVars, stdout, exitCode>>

RevealFindLast ==
    /\ pc = "reveal_find"
    /\ \E found \in BOOLEAN :
         /\ pidlChild' = ILFindLastID(pidlFile, found)
         /\ IF pidlChild'.null
            THEN /\ Log(<<"ILFindLastID", "ILFree(pidlFolder)", "ILFree(pidlFile)",
                          "CoUninitialize">>)
                 /\ Release({"pidlFolder", "pidlFile", "session"})
                 /\ Diag("reveal: child-extract-failed")
                 /\ rc' = 1
                 /\ pc' = "main_ret"
            ELSE /\ Log(<<"ILFindLastID">>)
                 /\ pc' = "reveal_show"
                 /\ UNCHANGED <<rel, stderr, rc>>
    /\ UNCHANGED <<argVars, launchVars, showResult, toolVars, acq, pidlFile,
                   pidlFolder, dialogVars, stdout, exitCode>>

\* RevealShow with the two ILFree calls of lines 165-166 moved before line 163
RevealShow_FreeFirst ==
    /\ pc = "reveal_show"
    /\ Log(<<"ILFree(pidlFolder)", "ILFree(pidlFile)", "SHOpenFolderAndSelectItems",
             "CoUninitialize">>)
    /\ Release({"pidlFolder", "pidlFile", "session"})
    /\ \E hr \in {"S_OK", "E_FAIL"} :
         /\ showResult' = hr
         /\ IF hr # "S_OK"
            THEN Diag("reveal: show-failed") /\ rc' = 1
            ELSE rc' = 0 /\ UNCHANGED stderr
    /\ pc' = "main_ret"
    /\ UNCHANGED <<argVars, launchVars, toolVars, acq, revealVars, dialogVars, stdout,
                   exitCode>>

\* RevealShow without the test of showResult (lines 168-171): always returns 0
RevealShow_IgnoreResult ==
    /\ pc = "reveal_show"
    /\ Log(<<"SHOpenFolderAndSelectItems", "ILFree(pidlFolder)", "ILFree(pidlFile)",
             "CoUninitialize">>)
    /\ Release({"pidlFolder", "pidlFile", "session"})
    /\ \E hr \in {"S_OK", "E_FAIL"} : showResult' = hr
    /\ rc' = 0
    /\ pc' = "main_ret"
    /\ UNCHANGED <<argVars, launchVars, toolVars, acq, revealVars, dialogVars, stdout,
                   stderr, exitCode>>

RevealShow ==
    /\ pc = "reveal_show"
    /\ Log(<<"SHOpenFolderAndSelectItems", "ILFree(pidlFolder)", "ILFree(pidlFile)",
             "CoUninitialize">>)
    /\ Release({"pidlFolder", "pidlFile", "session"})
    /\ \E hr \in {"S_OK", "E_FAIL"} :
         /\ showResult' = hr
         /\ IF hr # "S_OK"
            THEN Diag("reveal: show-failed") /\ rc' = 1
            ELSE rc' = 0 /\ UNCHANGED stderr
    /\ pc' = "main_ret"
    /\ UNCHANGED <<argVars, launchVars, toolVars, acq, revealVars, dialogVars, stdout,
                   exitCode>>

----------------------------------------------------------------------------
(* main: pick-folder / save-file dialog flow (lines 257-368) *)

DlgCoInit ==
    /\ pc = "dlg_coinit"
    /\ \E ok \in BOOLEAN :
         IF ~ok
         THEN /\ Log(<<"CoInitializeEx", "LocalFree(argv)">>)
              /\ Release({"argv"})
              /\ exitCode' = 1
              /\ pc' = "done"
              /\ UNCHANGED acq
         ELSE /\ Log(<<"CoInitializeEx">>)
              /\ Acquire({"session"})
              /\ pc' = "dlg_create"
              /\ UNCHANGED <<rel, exitCode>>
    /\ UNCHANGED <<argVars, launchVars, showResult, toolVars, revealVars, dialogVars,
                   rc, stdout, stderr>>

DlgCreate ==
    /\ pc = "dlg_create"
    /\ \E ok \in BOOLEAN :
         IF ~ok
         THEN /\ Log(<<"CoCreateInstance", "LocalFree(argv)", "CoUninitialize">>)
              /\ Release({"argv", "session"})
              /\ exitCode' = 1
              /\ pc' = "done"
              /\ UNCHANGED acq
         ELSE /\ Log(<<"CoCreateInstance">>)
              /\ Acquire({"dialog"})
              /\ pc' = "dlg_setup"
              /\ UNCHANGED <<rel, exitCode>>
    /\ UNCHANGED <<argVars, launchVars, showResult, toolVars, revealVars, dialogVars,
                   rc, stdout, stderr>>

\* shell_item_from_path (lines 56-64): NULL for a null or empty path,
\* otherwise what SHCreateItemFromParsingName yields
shell_item_from_path(path, osOk) == ~IsNullOrEmpty(path) /\ osOk

\* options, title, file name and initial folder (lines 277-309)
DlgSetup ==
    /\ pc = "dlg_setup"
    /\ \E optsOk \in BOOLEAN, qiOk \in BOOLEAN, itemOk \in BOOLEAN :
         LET setName == mode = "MODE_SAVE_FILE" /\ ~IsNullOrEmpty(filename) /\ qiOk
             item    == shell_item_from_path(initial, itemOk)
             got     == (IF setName THEN {"pfsd"} ELSE {})
                          \cup (IF item THEN {"initialItem"} ELSE {})
         IN  /\ Acquire(got)
             /\ Release(got)
             /\ Log((IF optsOk THEN <<"GetOptions", "SetOptions">> ELSE <<"GetOptions">>)
                    \o (IF ~IsNullOrEmpty(title) THEN <<"SetTitle">> ELSE <<>>)
                    \o (IF setName THEN <<"SetFileName", "pfsd->Release">> ELSE <<>>)
                    \o (IF item THEN <<"SetFolder", "SetDefaultFolder",
                                       "initialItem->Release">> ELSE <<>>))
    /\ pc' = "dlg_show"
    /\ UNCHANGED <<argVars, launchVars, showResult, toolVars, revealVars, dialogVars,
                   rc, stdout, stderr, exitCode>>

\* DlgShow reporting a cancelled dialog on standard error
DlgShow_Diag ==
    /\ pc = "dlg_show"
    /\ \E hr \in {"S_OK", "ERROR_CANCELLED", "E_FAIL"} :
         IF hr # "S_OK"
         THEN /\ Log(<<"Show", "LocalFree(argv)", "pfd->Release", "CoUninitialize">>)
              /\ Release({"argv", "dialog", "session"})
              /\ Diag("pick: cancelled")
              /\ exitCode' = 1
              /\ pc' = "done"
         ELSE /\ Log(<<"Show">>)
              /\ pc' = "dlg_result"
              /\ UNCHANGED <<rel, exitCode, stderr>>
    /\ UNCHANGED <<argVars, launchVars, showResult, toolVars, acq, revealVars,
                   dialogVars, rc, stdout>>

DlgShow ==
    /\ pc = "dlg_show"
    /\ \E hr \in {"S_OK", "ERROR_CANCELLED", "E_FAIL"} :
         IF hr # "S_OK"
         THEN /\ Log(<<"Show", "LocalFree(argv)", "pfd->Release", "CoUninitialize">>)
              /\ Release({"argv", "dialog", "session"})
              /\ exitCode' = 1
              /\ pc' = "done"
         ELSE /\ Log(<<"Show">>)
              /\ pc' = "dlg_result"
              /\ UNCHANGED <<rel, exitCode>>
    /\ UNCHANGED <<argVars, launchVars, showResult, toolVars, acq, revealVars,
                   dialogVars, rc, stdout, stderr>>

DlgGetResult ==
    /\ pc = "dlg_result"
    /\ \E ok \in BOOLEAN :
         IF ~ok
         THEN /\ Log(<<"GetResult", "LocalFree(argv)", "pfd->Release", "CoUninitialize">>)
              /\ Release({"argv", "dialog", "session"})
              /\ exitCode' = 1
              /\ pc' = "done"
              /\ UNCHANGED acq
         ELSE /\ Log(<<"GetResult">>)
              /\ Acquire({"result"})
              /\ pc' = "dlg_name"
              /\ UNCHANGED <<rel, exitCode>>
    /\ UNCHANGED <<argVars, launchVars, showResult, toolVars, revealVars, dialogVars,
                   rc, stdout, stderr>>

\* hr = psi->GetDisplayName(SIGDN_FILESYSPATH, &wz) (line 330): failure
\* leaves wz NULL, success hands over a CoTaskMemAlloc'ed string
GetDisplayNameFrom(raws) ==
    /\ pc = "dlg_name"
    /\ Log(<<"GetDisplayName">>)
    /\ \/ /\ wz' = NullW
          /\ UNCHANGED acq
       \/ \E raw \in raws :
            /\ wz' = WStr(raw)
            /\ Acquire({"displayName"})
    /\ pc' = "dlg_output"
    /\ UNCHANGED <<argVars, launchVars, showResult, toolVars, rel, revealVars, lpLen,
                   wtext, rc, stdout, stderr, exitCode>>

DlgGetDisplayName == GetDisplayNameFrom(DisplayNames)

DlgGetDisplayNameAny == GetDisplayNameFrom(RawPaths)

\* the UNC branch (lines 335-347)
DlgOutputUnc ==
    /\ pc = "dlg_output"
    /\ ~wz.null /\ wz.str # <<>>
    /\ IsExtUnc(wz.str)
    /\ \E tempOk \in BOOLEAN :
         IF ~tempOk
         THEN /\ rc' = 1
              /\ Log(<<"CoTaskMemFree(wz)">>)
              /\ UNCHANGED <<wtext, stdout>>
         ELSE LET tempBuffer == WStr(UncRewrite(wz.str))
              IN  \E mallocOk \in BOOLEAN, out \in FwriteOutcomes(WriteLen(tempBuffer)) :
                    LET w == write_utf8_stdout(tempBuffer, mallocOk, out)
                    IN  /\ wtext' = [called |-> TRUE, text |-> tempBuffer]
                        /\ rc' = w.ret
                        /\ stdout' = stdout \o w.bytes
                        /\ Log(<<"write_utf8_stdout", "CoTaskMemFree(wz)">>)
    /\ Release({"displayName"})
    /\ pc' = "cleanup"
    /\ UNCHANGED <<argVars, launchVars, showResult, toolVars, acq, revealVars, wz,
                   lpLen, stderr, exitCode>>

\* the prefix-stripping and long-name branch (lines 348-360)
DlgOutputLong ==
    /\ pc = "dlg_output"
    /\ ~wz.null /\ wz.str # <<>>
    /\ ~IsExtUnc(wz.str)
    /\ LET outputPath == OutputPath(wz.str)
       IN  \E kind \in LongPathKinds(outputPath) :
             LET lp   == GetLongPathNameW(outputPath, kind)
                 text == LongPathChoice(outputPath, lp)
             IN  \E mallocOk \in BOOLEAN, out \in FwriteOutcomes(WriteLen(text)) :
                   LET w == write_utf8_stdout(text, mallocOk, out)
                   IN  /\ lpLen' = lp.len
                       /\ wtext' = [called |-> TRUE, text |-> text]
                       /\ rc' = w.ret
                       /\ stdout' = stdout \o w.bytes
    /\ Log(<<"GetLongPathNameW", "write_utf8_stdout", "CoTaskMemFree(wz)">>)
    /\ Release({"displayName"})
    /\ pc' = "cleanup"
    /\ UNCHANGED <<argVars, launchVars, showResult, toolVars, acq, revealVars, wz,
                   stderr, exitCode>>

\* if (SUCCEEDED(hr) && wz && *wz) is false: straight to cleanup (line 332)
DlgOutputNone ==
    /\ pc = "dlg_output"
    /\ wz.null \/ wz.str = <<>>
    /\ pc' = "cleanup"
    /\ UNCHANGED <<argVars, launchVars, showResult, toolVars, acq, rel, calls,
                   revealVars, dialogVars, rc, stdout,
                   stderr, exitCode>>

\* cleanup: (lines 362-367)
DlgCleanup ==
    /\ pc = "cleanup"
    /\ Log(<<"psi->Release", "pfd->Release", "CoUninitialize", "LocalFree(argv)">>)
    /\ Release({"result", "dialog", "session", "argv"})
    /\ exitCode' = IF rc = 0 THEN 0 ELSE 1
    /\ pc' = "done"
    /\ UNCHANGED <<argVars, launchVars, showResult, toolVars, acq, revealVars,
                   dialogVars, rc, stdout, stderr>>

----------------------------------------------------------------------------

Next ==
    \/ MainParseArgs
    \/ MainReturn
    \/ open_folder
    \/ open_file
    \/ RevealCheckPath
    \/ RevealCoInit
    \/ RevealParse
    \/ RevealClone
    \/ RevealRemoveLast
    \/ RevealFindLast
    \/ RevealShow
    \/ DlgCoInit
    \/ DlgCreate
    \/ DlgSetup
    \/ DlgShow
    \/ DlgGetResult
    \/ DlgGetDisplayName
    \/ DlgOutputUnc
    \/ DlgOutputLong
    \/ DlgOutputNone
    \/ DlgCleanup

Spec == Init /\ [][Next]_vars

\* The dialog flow alone, with the canonicalisation applied to every string
\* of RawPaths
NextDialog ==
    \/ MainParseArgsDialog
    \/ DlgCoInit
    \/ DlgCreate
    \/ DlgSetup
    \/ DlgShow
    \/ DlgGetResult
    \/ DlgGetDisplayNameAny
    \/ DlgOutputUnc
    \/ DlgOutputLong
    \/ DlgOutputNone
    \/ DlgCleanup

SpecDialog == Init /\ [][NextDialog]_vars

----------------------------------------------------------------------------
(* parse_args alone (lines 66-109), applied to every vector of Argvs *)

InitArgs ==
    /\ pc = "parse_args"
    /\ argv \in Argvs
    /\ build = "_WIN32"
    /\ InitState

\* if (!parse_args(argc, argv, mode, title, initial, filename))
ApplyParseArgs ==
    /\ pc = "parse_args"
    /\ LET p == parse_args(argv)
       IN  /\ argsOk' = p.ok
           /\ mode' = p.mode
           /\ title' = p.title
           /\ initial' = p.initial
           /\ filename' = p.filename
    /\ pc' = "parsed"
    /\ UNCHANGED <<toolVars, acq, rel, calls, revealVars, showResult, launchVars, dialogVars,
                   rc, stdout, stderr, exitCode>>

NextArgs == ApplyParseArgs

SpecArgs == InitArgs /\ [][NextArgs]_vars

----------------------------------------------------------------------------
(* mvd-diskspace (tools/diskspace/src/diskspace.cpp), both preprocessor    *)
(* branches.  Standard output is the byte sequence written to std::cout.   *)

\* enum ExitCode
SUCCESS == 0
ERR_ARGS == 2
ERR_CONVERSION == 3
ERR_OS_CALL == 4

Builds == {"_WIN32", "posix"}
DiskPaths == {"", "/", "C:\\"}
DiskArgvs ==
    {<<"mvd-diskspace">> \o t : t \in UNION {[1..n -> DiskPaths] : n \in 0..MaxDiskArgs}}

\* f_frsize values and f_bavail counts the OS may report; the operands are
\* small, so the 64-bit product of line 53 does not wrap here
FrSizes == {512, 4096}
Blocks == 0..MaxBlocks
FreeValues == {b * f : b \in Blocks, f \in FrSizes}

\* operator<< of a uint64_t: decimal digits, no sign, no leading zero
RECURSIVE Decimal(_)
Decimal(n) == IF n < 10 THEN <<48 + n>> ELSE Decimal(n \div 10) \o <<48 + (n % 10)>>

\* "FREE_BYTES=" in bytes, and the newline written by std::endl
FreeBytesTag == <<70, 82, 69, 69, 95, 66, 89, 84, 69, 83, 61>>
Endl == <<10>>

InitDisk ==
    /\ pc = "ds_main"
    /\ argv \in DiskArgvs
    /\ build \in Builds
    /\ InitState

pickVars == <<argVars, launchVars, showResult, acq, rel, revealVars, dialogVars, rc>>

\* if (argc < 2) { usage; return ERR_ARGS; }
DiskCheckArgs ==
    /\ pc = "ds_main"
    /\ IF Len(argv) < 2
       THEN /\ Diag("Usage: <argv[0]> <path>")
            /\ exitCode' = ERR_ARGS
            /\ pc' = "done"
       ELSE /\ pc' = IF build = "_WIN32" THEN "ds_convert" ELSE "ds_statvfs"
            /\ UNCHANGED <<stderr, exitCode>>
    /\ UNCHANGED <<pickVars, toolVars, calls, stdout>>

\* int len = MultiByteToWideChar(...); if (len == 0) return ERR_CONVERSION;
DiskConvert ==
    /\ pc = "ds_convert"
    /\ Log(<<"MultiByteToWideChar">>)
    /\ \E lenZero \in BOOLEAN :
         IF lenZero
         THEN /\ Diag("Error converting path to wide string")
              /\ exitCode' = ERR_CONVERSION
              /\ pc' = "done"
         ELSE /\ pc' = "ds_query"
              /\ UNCHANGED <<stderr, exitCode>>
    /\ UNCHANGED <<pickVars, toolVars, stdout>>

\* DiskQueryWin with the failure branch printing the line before returning
DiskQueryWin_PrintOnFail ==
    /\ pc = "ds_query"
    /\ Log(<<"GetDiskFreeSpaceExW">>)
    /\ \E ok \in BOOLEAN, v \in FreeValues :
         IF ok
         THEN /\ freeBytes' = v
              /\ pc' = "ds_print"
              /\ UNCHANGED <<stdout, stderr, exitCode>>
         ELSE /\ Diag("Error getting disk space")
              /\ stdout' = stdout \o FreeBytesTag \o Decimal(freeBytes) \o Endl
              /\ exitCode' = ERR_OS_CALL
              /\ pc' = "done"
              /\ UNCHANGED freeBytes
    /\ UNCHANGED <<pickVars, argv, build>>

\* if (GetDiskFreeSpaceExW(...)) freeBytes = QuadPart; else return ERR_OS_CALL;
DiskQueryWin ==
    /\ pc = "ds_query"
    /\ Log(<<"GetDiskFreeSpaceExW">>)
    /\ \E ok \in BOOLEAN, v \in FreeValues :
         IF ok
         THEN /\ freeBytes' = v
              /\ pc' = "ds_print"
              /\ UNCHANGED <<stderr, exitCode>>
         ELSE /\ Diag("Error getting disk space")
              /\ exitCode' = ERR_OS_CALL
              /\ pc' = "done"
              /\ UNCHANGED freeBytes
    /\ UNCHANGED <<pickVars, argv, build, stdout>>

\* if (statvfs(...) == 0) freeBytes = f_bavail * f_frsize; else return ERR_OS_CALL;
DiskStatvfs ==
    /\ pc = "ds_statvfs"
    /\ Log(<<"statvfs">>)
    /\ \E ok \in BOOLEAN, f_bavail \in Blocks, f_frsize \in FrSizes :
         IF ok
         THEN /\ freeBytes' = f_bavail * f_frsize
              /\ pc' = "ds_print"
              /\ UNCHANGED <<stderr, exitCode>>
         ELSE /\ Diag("Error getting disk space")
              /\ exitCode' = ERR_OS_CALL
              /\ pc' = "done"
              /\ UNCHANGED freeBytes
    /\ UNCHANGED <<pickVars, argv, build, stdout>>

\* std::cout << "FREE_BYTES=" << freeBytes << std::endl; return SUCCESS;
DiskPrint ==
    /\ pc = "ds_print"
    /\ stdout' = stdout \o FreeBytesTag \o Decimal(freeBytes) \o Endl
    /\ exitCode' = SUCCESS
    /\ pc' = "done"
    /\ UNCHANGED <<pickVars, toolVars, calls, stderr>>

NextDisk ==
    \/ DiskCheckArgs
    \/ DiskConvert
    \/ DiskQueryWin
    \/ DiskStatvfs
    \/ DiskPrint

SpecDisk == InitDisk /\ [][NextDisk]_vars

----------------------------------------------------------------------------
(* Properties *)

Done == pc = "done"
ShellModes  == {"MODE_REVEAL", "MODE_OPEN_FOLDER", "MODE_OPEN_FILE"}
DialogModes == {"MODE_PICK_FOLDER", "MODE_SAVE_FILE"}
InDialogFlow == argsOk /\ mode \in DialogModes

Called(f) == \E i \in 1..Len(calls) : calls[i] = f
IsPrefixOf(a, b) == Len(a) <= Len(b) /\ SubSeq(b, 1, Len(a)) = a

\* the bytes of L"\\\\?\\" and of L"\\\\"
ExtPrefixBytes == <<92, 92, 63, 92>>
TwoBackslashBytes == <<92, 92>>

Identifiers == {"pidlFile", "pidlFolder"}

\* C1: in reveal_file an identifier (the resolved list and its clone) is
\* acquired at most once, never released more often than acquired, and once
\* reveal_file has returned every acquired identifier has been released.
C1_IdentifiersReleasedOnce ==
    /\ \A r \in Identifiers : acq[r] <= 1 /\ rel[r] <= acq[r]
    /\ pc \in {"main_ret", "done"} => \A r \in Identifiers : rel[r] = acq[r]

C1_Witness ==
    /\ pc = "main_ret"
    /\ mode = "MODE_REVEAL"
    /\ stderr = <<"reveal: child-extract-failed">>
    /\ \A r \in Identifiers : acq[r] = 1 /\ rel[r] = 1

DialogResources == {"session", "dialog", "initialItem", "result", "displayName", "argv"}

\* C2: in the pick-folder / save-file flow every OS-owned resource is
\* acquired at most once, never released without having been acquired, and
\* released once the process has returned.
C2_DialogResourcesReleasedOnce ==
    InDialogFlow =>
        /\ \A r \in DialogResources : acq[r] <= 1 /\ rel[r] <= acq[r]
        /\ Done => \A r \in DialogResources : rel[r] = acq[r]

\* C3: the process ends with exit code 0 or 1, and standard output is
\* non-empty only with exit code 0 and the complete result path on it.
C3_StdoutImpliesSuccess ==
    Done => /\ exitCode \in {0, 1}
            /\ stdout # <<>> =>
                 /\ exitCode = 0
                 /\ wtext.called /\ stdout = Utf8(wtext.text.str)

\* C3 as amended: the process ends with exit code 0 or 1; with exit code 0
\* a dialog mode has written the complete result path; with exit code 1
\* standard output is empty or, after a short write, a proper prefix of it.
C3_StdoutCompleteOrShort ==
    Done => /\ exitCode \in {0, 1}
            /\ (exitCode = 0 /\ InDialogFlow) =>
                 /\ wtext.called /\ stdout = Utf8(wtext.text.str)
                 /\ stdout # <<>>
            /\ (exitCode = 0 /\ ~InDialogFlow) => stdout = <<>>
            /\ (exitCode = 1 /\ stdout # <<>>) =>
                 /\ wtext.called /\ IsPrefixOf(stdout, Utf8(wtext.text.str))
                 /\ Len(stdout) < Len(Utf8(wtext.text.str))

C3_Witness == Done /\ exitCode = 1 /\ stdout # <<>> /\ Called("write_utf8_stdout")

RevealDiagnostics ==
    {"reveal: invalid-path", "reveal: com-init-failed", "reveal: file-not-found",
     "reveal: clone-failed", "reveal: parse-failed", "reveal: child-extract-failed",
     "reveal: show-failed"}

DiagnosticsOf(m) ==
    CASE m = "MODE_REVEAL"      -> RevealDiagnostics
      [] m = "MODE_OPEN_FOLDER" -> {"open-folder: invalid-path", "open-folder: execute-failed"}
      [] m = "MODE_OPEN_FILE"   -> {"open-file: invalid-path", "open-file: execute-failed"}
      [] OTHER                  -> {}

KindOfLen(n) == IF n = 0 THEN "fail" ELSE IF n >= LongPathCch THEN "too-long" ELSE "ok"
SameOsKinds == IF lpLen = -1 THEN {"fail", "ok", "too-long"} ELSE {KindOfLen(lpLen)}

HasExtUncPrefix(w) ==
    Len(w) >= 8 /\ SubSeq(w, 1, 8) = <<"\\", "\\", "?", "\\", "U", "N", "C", "\\">>
HasExtPrefix(w) ==
    Len(w) >= 4 /\ SubSeq(w, 1, 4) = <<"\\", "\\", "?", "\\">>
DropFirst(w, n) == [i \in 1..(Len(w) - n) |-> w[i + n]]

\* C5: the canonicalisation applied to its own output gives that output
\* again, for every raw path (with the OS answering as in the first pass).
C5_NormalizeIdempotent ==
    wtext.called =>
        \A k \in SameOsKinds : Normalize(wtext.text.str, k) = wtext.text.str

\* C5 as amended: the canonicalisation applied to its own output gives that
\* output again for every raw path that is not in extended-length UNC form
\* and in which the leading extended-length prefix is not followed by
\* another extended-length prefix.
C5_NormalizeIdempotentSinglePrefix ==
    (/\ wtext.called
     /\ ~HasExtUncPrefix(wz.str)
     /\ ~(HasExtPrefix(wz.str) /\ HasExtPrefix(DropFirst(wz.str, 4)))) =>
        \A k \in SameOsKinds : Normalize(wtext.text.str, k) = wtext.text.str

C5_Witness ==
    /\ Done
    /\ wz.str = <<"\\", "\\", "?", "\\", "C", ":", "\\", "A", "~", "1">>
    /\ lpLen = 7
    /\ wtext.text.str = <<"C", ":", "\\", "A", "b", "c", "1">>
    /\ Normalize(wtext.text.str, "ok") = wtext.text.str

IsUncName(w) ==
    \/ HasExtUncPrefix(w)
    \/ (Len(w) >= 2 /\ SubSeq(w, 1, 2) = <<"\\", "\\">> /\ ~HasExtPrefix(w))

\* C6: what pick-folder / save-file put on standard output never begins with
\* the extended-length prefix, and a complete UNC result begins with two
\* backslashes.
C6_NoExtendedPrefixOnStdout ==
    /\ ~IsPrefixOf(ExtPrefixBytes, stdout)
    /\ (Done /\ exitCode = 0 /\ InDialogFlow /\ IsUncName(wz.str)) =>
          IsPrefixOf(TwoBackslashBytes, stdout)

C6_Witness ==
    /\ Done /\ exitCode = 0
    /\ wz.str = <<"\\", "\\", "?", "\\", "C", ":", "\\", "U+00E9", "U+20AC">>
    /\ stdout = <<67, 58, 92, 195, 169, 226, 130, 172>>

\* C7: for a raw path beginning with \\?\UNC\ the text written is two
\* backslashes followed by the remainder after that marker, and the OS
\* long-name query is not made.
C7_ExtendedUncRewritten ==
    (pc \in {"cleanup", "done"} /\ ~wz.null /\ HasExtUncPrefix(wz.str)) =>
        /\ lpLen = -1
        /\ ~Called("GetLongPathNameW")
        /\ wtext.called => wtext.text.str = <<"\\", "\\">> \o DropFirst(wz.str, 8)
        /\ rc = 0 => /\ wtext.called
                     /\ stdout = Utf8(<<"\\", "\\">> \o DropFirst(wz.str, 8))

C7_Witness ==
    /\ Done /\ exitCode = 0
    /\ wz.str = <<"\\", "\\", "?", "\\", "U", "N", "C", "\\", "s", "\\", "h", "\\", "A", "~", "1">>
    /\ wtext.text.str = <<"\\", "\\", "s", "\\", "h", "\\", "A", "~", "1">>
    /\ stdout = <<92, 92, 115, 92, 104, 92, 65, 126, 49>>

\* C8: for a non-empty raw path not beginning with \\?\UNC\ the text written
\* is the OS long name of the path without its leading \\?\ when the OS
\* reports a length in 1..32767, else that path itself; and a failed or
\* overflowing long-name query followed by a complete write ends with exit
\* code 0.
C8_StripThenLongName ==
    (pc \in {"cleanup", "done"} /\ ~wz.null /\ wz.str # <<>> /\ ~HasExtUncPrefix(wz.str)) =>
        LET stripped == IF HasExtPrefix(wz.str) THEN DropFirst(wz.str, 4) ELSE wz.str
            expected == IF lpLen > 0 /\ lpLen < 32768 THEN Expand(stripped) ELSE stripped
        IN  /\ Called("GetLongPathNameW") /\ lpLen >= 0
            /\ wtext.called /\ ~wtext.text.null /\ wtext.text.str = expected
            /\ rc = 0 => stdout = Utf8(expected)
            /\ (stdout = Utf8(expected) /\ expected # <<>>) => rc = 0
            /\ (Done /\ stdout = Utf8(expected) /\ expected # <<>>) => exitCode = 0

C8_Witness ==
    /\ Done /\ exitCode = 0
    /\ wz.str = <<"\\", "\\", "?", "\\", "C", ":", "\\", "A", "~", "1">>
    /\ lpLen > 32768
    /\ stdout = <<67, 58, 92, 65, 126, 49>>

\* C9: write_utf8_stdout fails and writes nothing for a null or empty text;
\* for a non-empty text it returns success exactly when the UTF-8 bytes of
\* the text, without terminator or newline, are on standard output, and
\* failure when fewer of them are.
C9_WriteUtf8Exact ==
    /\ \A m \in BOOLEAN : write_utf8_stdout(NullW, m, 0) = [ret |-> 1, bytes |-> <<>>]
    /\ (pc \in {"cleanup", "done"} /\ wtext.called) =>
          LET text  == wtext.text.str
              bytes == Utf8(text)
          IN  /\ text = <<>> => (rc = 1 /\ stdout = <<>>)
              /\ IsPrefixOf(stdout, bytes)
              /\ \A i \in 1..Len(stdout) : stdout[i] # 0 /\ stdout[i] # 10
              /\ rc = 0 <=> (text # <<>> /\ stdout = bytes)
              /\ Len(stdout) < Len(bytes) => rc = 1

C9_Witness ==
    /\ Done /\ rc = 0
    /\ wtext.text.str = <<"C", ":", "\\", "U+00E9", "U+20AC">>
    /\ Len(stdout) = 8

\* C10: when the path given to reveal does not resolve, reveal returns 1
\* with 'reveal: file-not-found', has released the session it acquired,
\* holds no identifier and has called none of ILClone, ILRemoveLastID,
\* ILFindLastID and SHOpenFolderAndSelectItems.
C10_UnresolvedPathFileNotFound ==
    (mode = "MODE_REVEAL" /\ Called("SHParseDisplayName") /\ pidlFile.null) =>
        /\ pc \in {"main_ret", "done"}
        /\ rc = 1
        /\ Done => exitCode = 1
        /\ stderr = <<"reveal: file-not-found">>
        /\ acq["session"] = 1 /\ rel["session"] = 1
        /\ \A r \in Identifiers : acq[r] = 0 /\ rel[r] = 0
        /\ ~Called("ILClone") /\ ~Called("ILRemoveLastID")
        /\ ~Called("ILFindLastID") /\ ~Called("SHOpenFolderAndSelectItems")

C10_Witness ==
    /\ Done /\ exitCode = 1
    /\ mode = "MODE_REVEAL" /\ initial = "C:\\x"
    /\ Called("SHParseDisplayName") /\ pidlFile.null
    /\ stderr = <<"reveal: file-not-found">>

----------------------------------------------------------------------------
(* Empty-path rejection in the shell modes *)

InvalidPathDiag(m) ==
    CASE m = "MODE_REVEAL"      -> "reveal: invalid-path"
      [] m = "MODE_OPEN_FOLDER" -> "open-folder: invalid-path"
      [] m = "MODE_OPEN_FILE"   -> "open-file: invalid-path"

SessionCalls == {"CoInitializeEx", "CoUninitialize", "SHParseDisplayName", "ILClone",
                 "ILRemoveLastID", "ILFindLastID", "SHOpenFolderAndSelectItems",
                 "ShellExecuteExW", "CoCreateInstance"}

\* C11: in reveal, open-folder and open-file an empty or absent path is
\* rejected before anything else happens: no shell execute, no COM session
\* and no identifier at any time, and the function returns 1 (the process
\* exits 1) with exactly the mode's "invalid-path" diagnostic on stderr.
C11_EmptyPathRejected ==
    (argsOk /\ mode \in ShellModes /\ IsNullOrEmpty(initial)) =>
        /\ \A f \in SessionCalls : ~Called(f)
        /\ ~shExecInfo.set /\ execOk = "none" /\ showResult = "none"
        /\ acq["session"] = 0 /\ \A r \in Identifiers : acq[r] = 0
        /\ stdout = <<>>
        /\ pc \in {"main_ret", "done"} =>
              /\ rc = 1
              /\ stderr = <<InvalidPathDiag(mode)>>
        /\ Done => exitCode = 1

C11_Witness ==
    /\ Done /\ exitCode = 1
    /\ argsOk /\ mode = "MODE_OPEN_FOLDER" /\ initial = ""
    /\ stderr = <<"open-folder: invalid-path">>
    /\ calls = <<"CommandLineToArgvW", "LocalFree(argv)">>

----------------------------------------------------------------------------
(* Argument interpretation *)

OptionFlags == {"--mode", "--title", "--initial", "--path", "--name"}

\* The role of every argument after argv[0], read left to right: an option
\* name that has a following argument is "flag" and that argument is
\* "value"; an option name in last place is "lone"; the rest is "bare".
RECURSIVE Roles(_, _)
Roles(av, k) ==
    IF k > Len(av) THEN <<>>
    ELSE IF av[k] \in OptionFlags
         THEN IF k < Len(av) THEN <<"flag", "value">> \o Roles(av, k + 2)
                             ELSE <<"lone">>
         ELSE <<"bare">> \o Roles(av, k + 1)

\* argument i (1 = first after argv[0]) and its role
Arg(i) == argv[i + 1]
RoleOf(i) == Roles(argv, 2)[i]
ArgIdx == 1..(Len(argv) - 1)

\* the bare arguments, in order
RECURSIVE BareFrom(_)
BareFrom(i) ==
    IF i > Len(argv) - 1 THEN <<>>
    ELSE (IF RoleOf(i) = "bare" THEN <<Arg(i)>> ELSE <<>>) \o BareFrom(i + 1)

\* positions of the options named in S that have a value
FlagsAt(S) == {i \in ArgIdx : RoleOf(i) = "flag" /\ Arg(i) \in S}
Last(I) == CHOOSE i \in I : \A j \in I : j <= i

\* C12 as claimed: with no arguments the mode is pick-folder, "--mode"
\* followed by one of the five names selects that mode, and for every
\* argument vector the first bare argument is the title and the second
\* bare argument the initial path (read in the claim's favour: unless a
\* "--title" or "--initial"/"--path" option gives the value).
C12_PositionalByOrder ==
    (pc = "parsed" /\ argsOk) =>
        /\ Len(argv) = 1 => mode = "MODE_PICK_FOLDER"
        /\ FlagsAt({"--mode"}) # {} => mode = ModeOf(Arg(Last(FlagsAt({"--mode"})) + 1))
        /\ (FlagsAt({"--title"}) = {} /\ Len(BareFrom(1)) >= 1) => title = BareFrom(1)[1]
        /\ (FlagsAt({"--initial", "--path"}) = {} /\ Len(BareFrom(1)) >= 2) =>
               initial = BareFrom(1)[2]

\* an argument in place i that parse_args does not read as an option with
\* its value: a bare argument or an option name in last place
Positional(i) == i \in ArgIdx /\ RoleOf(i) \in {"bare", "lone"}

\* C12 as amended: parse_args fails exactly when some "--mode" option has a
\* value outside the five names; otherwise the last "--mode" option selects
\* the mode (pick-folder without one), the title is the value of the last
\* "--title" option, else argument 1 if it is positional, else "Choose
\* Folder"; the initial path is the value of the last "--initial"/"--path"
\* option, else argument 2 if it is positional, else absent; positional
\* arguments in later places are ignored.
C12_PositionalByIndex ==
    pc = "parsed" =>
        LET modes  == FlagsAt({"--mode"})
            titles == FlagsAt({"--title"})
            paths  == FlagsAt({"--initial", "--path"})
            names  == FlagsAt({"--name"})
        IN  /\ argsOk <=> \A i \in modes : Arg(i + 1) \in ModeNames
            /\ argsOk =>
                 /\ mode = IF modes = {} THEN "MODE_PICK_FOLDER"
                                        ELSE ModeOf(Arg(Last(modes) + 1))
                 /\ title = IF titles # {} THEN Arg(Last(titles) + 1)
                            ELSE IF Positional(1) THEN Arg(1)
                            ELSE "Choose Folder"
                 /\ initial = IF paths # {} THEN Arg(Last(paths) + 1)
                              ELSE IF Positional(2) THEN Arg(2)
                              ELSE Null
                 /\ filename = IF names = {} THEN Null ELSE Arg(Last(names) + 1)

\* a bare argument in third place is ignored
C12_Witness ==
    /\ pc = "parsed" /\ argsOk
    /\ argv = <<"mvd-fileui.exe", "--initial", "", "C:\\x">>
    /\ mode = "MODE_PICK_FOLDER" /\ title = "Choose Folder" /\ initial = ""

----------------------------------------------------------------------------
(* Standard output *)

Count(f) == Cardinality({i \in 1..Len(calls) : calls[i] = f})

\* C13: outside the pick-folder / save-file flow (reveal, open-folder,
\* open-file, a rejected command line) nothing is ever written to standard
\* output and the writer is never called; in the dialog flow the writer is
\* called at most once, so standard output holds at most (a prefix of) the
\* one path handed to it.
C13_StdoutOnlyFromDialog ==
    /\ ~InDialogFlow => (stdout = <<>> /\ ~wtext.called /\ Count("write_utf8_stdout") = 0)
    /\ Count("write_utf8_stdout") <= 1
    /\ wtext.called <=> Count("write_utf8_stdout") = 1
    /\ stdout # <<>> => (wtext.called /\ IsPrefixOf(stdout, Utf8(wtext.text.str)))

C13_Witness ==
    /\ Done /\ exitCode = 0
    /\ argsOk /\ mode = "MODE_OPEN_FILE"
    /\ execOk = "TRUE"
    /\ stdout = <<>> /\ stderr = <<>>

----------------------------------------------------------------------------
(* mvd-diskspace: exit codes and the FREE_BYTES line *)

\* the value of a sequence of ASCII decimal digits
RECURSIVE DigitsValue(_)
DigitsValue(d) ==
    IF d = <<>> THEN 0 ELSE 10 * DigitsValue(SubSeq(d, 1, Len(d) - 1)) + (d[Len(d)] - 48)

\* "FREE_BYTES=" followed by the decimal digits of n (no sign, no leading
\* zero) and one newline
IsFreeBytesLine(bytes, n) ==
    /\ Len(bytes) >= Len(FreeBytesTag) + 2
    /\ SubSeq(bytes, 1, Len(FreeBytesTag)) = FreeBytesTag
    /\ bytes[Len(bytes)] = 10
    /\ LET d == SubSeq(bytes, Len(FreeBytesTag) + 1, Len(bytes) - 1)
       IN  /\ \A i \in 1..Len(d) : d[i] \in 48..57
           /\ Len(d) > 1 => d[1] # 48
           /\ DigitsValue(d) = n

\* C14: mvd-diskspace ends with exit code 2 (no path argument), 3 (the
\* path conversion failed, _WIN32 build only), 4 (the free-space query
\* failed) or 0; with exit code 0 standard output is exactly the line
\* FREE_BYTES=<freeBytes in decimal>, and in every other state, running or
\* ended with 2, 3 or 4, standard output is empty.
C14_DiskExitCodes ==
    /\ Done =>
         /\ exitCode \in {SUCCESS, ERR_ARGS, ERR_CONVERSION, ERR_OS_CALL}
         /\ exitCode = ERR_ARGS <=> Len(argv) < 2
         /\ exitCode = ERR_ARGS => (calls = <<>> /\ stderr = <<"Usage: <argv[0]> <path>">>)
         /\ exitCode = ERR_CONVERSION =>
               /\ build = "_WIN32"
               /\ calls = <<"MultiByteToWideChar">>
               /\ stderr = <<"Error converting path to wide string">>
         /\ exitCode = ERR_OS_CALL =>
               /\ calls[Len(calls)] \in {"GetDiskFreeSpaceExW", "statvfs"}
               /\ stderr = <<"Error getting disk space">>
         /\ exitCode = SUCCESS =>
               /\ stderr = <<>>
               /\ calls[Len(calls)] \in {"GetDiskFreeSpaceExW", "statvfs"}
               /\ freeBytes \in FreeValues
    /\ (Done /\ exitCode = SUCCESS) => IsFreeBytesLine(stdout, freeBytes)
    /\ ~(Done /\ exitCode = SUCCESS) => stdout = <<>>

C14_Witness ==
    /\ Done /\ exitCode = SUCCESS
    /\ build = "posix" /\ argv = <<"mvd-diskspace", "/">>
    /\ freeBytes = 12288
    /\ stdout = <<70, 82, 69, 69, 95, 66, 89, 84, 69, 83, 61, 49, 50, 50, 56, 56, 10>>

----------------------------------------------------------------------------
(* reveal_file: the child identifier *)

\* the places in the call log where f was called
At(f) == {i \in 1..Len(calls) : calls[i] = f}
Before(f, g) == \A i \in At(f), j \in At(g) : i < j

\* calls that release what they are handed
ReleaseCalls == {"ILFree(pidlFolder)", "ILFree(pidlFile)", "CoTaskMemFree(wz)",
                 "LocalFree(argv)", "CoUninitialize"}
\* C15: the child identifier is a view into the resolved identifier: it is
\* never handed to a release call (every release in reveal_file names the
\* resolved identifier, its clone or the session), it is obtained and used
\* by the show call strictly before the resolved identifier is released,
\* and while it is in use it is the last id of the resolved identifier.
C15_ChildBorrowed ==
    (argsOk /\ mode = "MODE_REVEAL") =>
        /\ \A i \in 1..Len(calls) :
              calls[i] \in SessionCalls \cup ReleaseCalls \cup {"CommandLineToArgvW"}
        /\ ~pidlChild.null => Called("ILFindLastID")
        /\ Before("ILFindLastID", "ILFree(pidlFile)")
        /\ Before("ILFindLastID", "SHOpenFolderAndSelectItems")
        /\ Before("SHOpenFolderAndSelectItems", "ILFree(pidlFile)")
        /\ Called("SHOpenFolderAndSelectItems") =>
              /\ ~pidlChild.null /\ ~pidlFile.null
              /\ pidlChild.ids = <<pidlFile.ids[Len(pidlFile.ids)]>>
        /\ rel["pidlFile"] = 0 /\ ~pidlChild.null =>
              pidlChild.ids = <<pidlFile.ids[Len(pidlFile.ids)]>>

C15_Witness ==
    /\ pc = "main_ret" /\ mode = "MODE_REVEAL"
    /\ showResult = "S_OK"
    /\ ~pidlChild.null /\ pidlChild.ids = <<2>> /\ pidlFile.ids = <<1, 2>>
    /\ calls = <<"CommandLineToArgvW", "CoInitializeEx", "SHParseDisplayName", "ILClone",
                 "ILRemoveLastID", "ILFindLastID", "SHOpenFolderAndSelectItems",
                 "ILFree(pidlFolder)", "ILFree(pidlFile)", "CoUninitialize">>

----------------------------------------------------------------------------
(* reveal_file: parent derivation and child extraction failures *)

RevealEnded == argsOk /\ mode = "MODE_REVEAL" /\ pc \in {"main_ret", "done"}

----------------------------------------------------------------------------
(* reveal_file: order of the steps *)

\* the OS calls of reveal_file that can fail, in source order, and the
\* diagnostic of each
RevealSteps ==
    <<"CoInitializeEx", "SHParseDisplayName", "ILClone", "ILRemoveLastID", "ILFindLastID",
      "SHOpenFolderAndSelectItems">>
RevealStepErrors ==
    <<"reveal: com-init-failed", "reveal: file-not-found", "reveal: clone-failed",
      "reveal: parse-failed", "reveal: child-extract-failed", "reveal: show-failed">>

IsRevealStep(c) == \E k \in 1..Len(RevealSteps) : RevealSteps[k] = c
StepsDone == SelectSeq(calls, IsRevealStep)

\* C17: reveal_file runs its steps in one fixed order, each at most once
\* (the show call included); the diagnostic is that of the last step run,
\* which is the first one that failed, and no later step is run; an empty
\* path is rejected before the first step; the function returns 0 exactly
\* when all steps ran and the show call returned success.
C17_RevealStepOrder ==
    (argsOk /\ mode = "MODE_REVEAL") =>
        /\ IsPrefixOf(StepsDone, RevealSteps)
        /\ Len(stderr) <= 1
        /\ showResult # "none" <=> Called("SHOpenFolderAndSelectItems")
        /\ ~RevealEnded => stderr = <<>>
        /\ RevealEnded =>
              /\ \A k \in 1..Len(RevealSteps) :
                    stderr = <<RevealStepErrors[k]>> => Len(StepsDone) = k
              /\ stderr = <<"reveal: invalid-path">> <=> IsNullOrEmpty(initial)
              /\ stderr = <<"reveal: invalid-path">> => StepsDone = <<>>
              /\ stderr = <<>> => StepsDone = RevealSteps
              /\ stderr = <<"reveal: show-failed">> <=> showResult = "E_FAIL"
              /\ rc = 0 <=> showResult = "S_OK"
              /\ rc = 0 <=> stderr = <<>>
              /\ rc \in {0, 1}
              /\ Done => exitCode = rc

C17_Witness ==
    /\ Done /\ argsOk /\ mode = "MODE_REVEAL"
    /\ StepsDone = <<"CoInitializeEx", "SHParseDisplayName", "ILClone">>
    /\ stderr = <<"reveal: clone-failed">>
    /\ exitCode = 1

----------------------------------------------------------------------------
(* open_folder and open_file *)

LaunchModes == {"MODE_OPEN_FOLDER", "MODE_OPEN_FILE"}

ExecuteFailedDiag(m) ==
    CASE m = "MODE_OPEN_FOLDER" -> "open-folder: execute-failed"
      [] m = "MODE_OPEN_FILE"   -> "open-file: execute-failed"

\* C18: open-folder and open-file with a non-empty path call
\* ShellExecuteExW exactly once, with the verb "open", the path as given on
\* the command line and SW_SHOW; the function returns 0 (exit code 0)
\* exactly when the call returned TRUE and otherwise writes the mode's
\* "execute-failed" token and returns 1; no COM session, identifier or
\* dialog resource is acquired and no other shell call is made.
C18_LaunchOnce ==
    (argsOk /\ mode \in LaunchModes /\ ~IsNullOrEmpty(initial)) =>
        /\ \A r \in Resources \ {"argv"} : acq[r] = 0 /\ rel[r] = 0
        /\ \A f \in SessionCalls \ {"ShellExecuteExW"} : ~Called(f)
        /\ Count("ShellExecuteExW") <= 1
        /\ Count("ShellExecuteExW") = 1 <=> pc \in {"main_ret", "done"}
        /\ Count("ShellExecuteExW") = 1 <=> execOk # "none"
        /\ execOk # "none" =>
              /\ shExecInfo.set
              /\ shExecInfo.lpVerb = "open"
              /\ shExecInfo.lpFile = initial
              /\ shExecInfo.nShow = "SW_SHOW"
              /\ shExecInfo.fMask = 0
              /\ rc = 0 <=> execOk = "TRUE"
              /\ rc = 1 <=> execOk = "FALSE"
              /\ execOk = "TRUE" => stderr = <<>>
              /\ execOk = "FALSE" => stderr = <<ExecuteFailedDiag(mode)>>
        /\ Done => exitCode = rc

C18_Witness ==
    /\ Done /\ exitCode = 1
    /\ argsOk /\ mode = "MODE_OPEN_FILE" /\ initial = "C:\\x"
    /\ execOk = "FALSE"
    /\ shExecInfo.lpFile = "C:\\x" /\ shExecInfo.lpVerb = "open"
    /\ stderr = <<"open-file: execute-failed">>

----------------------------------------------------------------------------
(* reveal_file: parent and child at the show call *)

ShowReached == argsOk /\ mode = "MODE_REVEAL" /\ (pc = "reveal_show" \/ showResult # "none")

\* the parent and child handed to the show call compose to the resolved list
ParentChildCompose ==
    ShowReached =>
        /\ ~pidlFile.null /\ ~pidlFolder.null /\ ~pidlChild.null
        /\ Len(pidlFile.ids) >= 1
        /\ pidlFolder.ids = SubSeq(pidlFile.ids, 1, Len(pidlFile.ids) - 1)
        /\ pidlChild.ids = <<pidlFile.ids[Len(pidlFile.ids)]>>
        /\ pidlFolder.ids \o pidlChild.ids = pidlFile.ids
        /\ acq["pidlFile"] = 1 /\ acq["pidlFolder"] = 1
        /\ Before("SHOpenFolderAndSelectItems", "ILFree(pidlFolder)")
        /\ Before("ILFree(pidlFolder)", "ILFree(pidlFile)")

\* from its resolution to the return of reveal_file the resolved list is
\* not changed, and the child is not changed once it has been taken
OriginalKept ==
    /\ pc \in {"reveal_clone", "reveal_remove", "reveal_find", "reveal_show"} =>
          pidlFile' = pidlFile
    /\ pc = "reveal_show" => pidlChild' = pidlChild

\* C19: at the show call the resolved identifier is as it was resolved
\* (truncating the clone has not changed it), the parent is the resolved
\* identifier without its last segment, the child is that last segment,
\* and parent followed by child is the resolved identifier; the parent is
\* an allocation of its own, released after the show call and before the
\* resolved identifier, which leaves the resolved identifier and the child
\* as they were.
C19_ParentChildOfOriginal == []ParentChildCompose /\ [][OriginalKept]_vars

C19_Witness ==
    /\ pc = "reveal_show" /\ argsOk /\ mode = "MODE_REVEAL"
    /\ pidlFile.ids = <<1, 2>> /\ pidlFolder.ids = <<1>> /\ pidlChild.ids = <<2>>
    /\ rel["pidlFolder"] = 0 /\ rel["pidlFile"] = 0

----------------------------------------------------------------------------
(* reveal_file: the COM session encloses the identifiers *)

IdentifierCalls == {"SHParseDisplayName", "ILClone", "ILRemoveLastID", "ILFindLastID",
                    "SHOpenFolderAndSelectItems", "ILFree(pidlFolder)", "ILFree(pidlFile)"}

\* C20: in reveal_file every call that makes, uses or frees an identifier
\* lies between CoInitializeEx and CoUninitialize; identifiers exist only
\* while the session is held and are all released once it is released;
\* CoUninitialize is called exactly once on every path on which
\* CoInitializeEx succeeded and never when it failed or when the path was
\* rejected as empty.
C20_SessionEnclosesIdentifiers ==
    (argsOk /\ mode = "MODE_REVEAL") =>
        /\ acq["session"] <= 1 /\ rel["session"] <= acq["session"]
        /\ Count("CoInitializeEx") <= 1
        /\ Count("CoUninitialize") = rel["session"]
        /\ \A f \in IdentifierCalls :
              /\ Before("CoInitializeEx", f)
              /\ Before(f, "CoUninitialize")
              /\ Called(f) => acq["session"] = 1
        /\ \A r \in Identifiers :
              /\ acq[r] > rel[r] => (acq["session"] = 1 /\ rel["session"] = 0)
              /\ rel["session"] = 1 => rel[r] = acq[r]
        /\ RevealEnded => rel["session"] = acq["session"]
        /\ (Called("CoInitializeEx") /\ acq["session"] = 0) =>
              /\ ~Called("CoUninitialize")
              /\ stderr = <<"reveal: com-init-failed">>
        /\ IsNullOrEmpty(initial) => (~Called("CoInitializeEx") /\ ~Called("CoUninitialize"))

C20_Witness ==
    /\ pc = "main_ret" /\ argsOk /\ mode = "MODE_REVEAL"
    /\ showResult = "E_FAIL"
    /\ acq["session"] = 1 /\ rel["session"] = 1
    /\ \A r \in Identifiers : acq[r] = 1 /\ rel[r] = 1
    /\ calls[2] = "CoInitializeEx" /\ calls[Len(calls)] = "CoUninitialize"

====
